---- MODULE Spec2Model ----
(***************************************************************************)
(* Product REST facade over Firestore (src/controllers/productController.js)*)
(*                                                                         *)
(* Five async Express handlers; each runs synchronously up to its single   *)
(* `await` on a Firestore call, is suspended while the store works, and    *)
(* resumes to write the HTTP response.  Requests of different clients      *)
(* interleave at the await.  The store applies each call atomically.       *)
(*                                                                         *)
(* Firestore behaviour used by the handlers (firebase/firestore, imported  *)
(* at lines 3-12):                                                         *)
(*   doc(db, "products", id)  builds a reference; it throws when the path  *)
(*                            "products/" + id has an odd number of        *)
(*                            segments (an id holding a "/").              *)
(*   addDoc(coll, data)       writes data under a fresh auto-generated id. *)
(*   getDocs(coll)            snapshot of all documents, in id order.      *)
(*   getDoc(ref)              snapshot of one document, exists() or not.   *)
(*   updateDoc(ref, data)     merges the top-level fields of data into an  *)
(*                            EXISTING document; rejects with not-found    *)
(*                            when the document is absent.                 *)
(*   deleteDoc(ref)           removes the document; absent is a success.   *)
(* Any call may also be rejected by the store (unavailable, denied); a     *)
(* rejected call leaves the store unchanged.                               *)
(***************************************************************************)
EXTENDS Integers, Sequences, FiniteSets, TLC

\* Bounds of the model: ids the generator can hand out, requests received.
MaxIds == 2
MaxReqs == 3

VARIABLES
  store,      \* the "products" collection: document id -> document fields
  assigned,   \* ids the store's id generator has handed out so far
  reqs,       \* the HTTP requests received so far, in arrival order
  clock       \* number of store calls the store has settled

vars == <<store, assigned, reqs, clock>>

----------------------------------------------------------------------------
\* Values

\* Ids the auto-id generator of addDoc can produce.
AutoIdSeq == [i \in 1..MaxIds |-> "id" \o ToString(i)]
AutoIds == {AutoIdSeq[i] : i \in 1..MaxIds}

\* req.params.id: whatever the client put in the path, an id the store has
\* handed out or one of the client's making.  "a/b" arrives as
\* /api/products/a%2Fb (Express decodes the parameter).
PathIds == assigned \cup {"doesnotexist", "a/b"}

\* Iteration order of a collection snapshot: ascending document id.
DocIdOrder == <<"doesnotexist">> \o AutoIdSeq

\* req.body: the JSON bodies clients send.
Widget == [name |-> "Widget", price |-> 999, retailer |-> "Acme", amountInStock |-> 10]
Gadget == [name |-> "Gadget", price |-> 500, retailer |-> "Zed", amountInStock |-> 0, color |-> "red"]
PriceOnly == [price |-> 1250]
Bodies == {Widget, Gadget, PriceOnly}

NoBody == <<>>
EmptyStore == <<>>

\* Messages of the failures the store raises.
ErrInvalidRef == "Invalid document reference. Document references must have an even number of segments"
ErrNotFound == "No document to update"
ErrUnavailable == "Failed to get document because the client is offline"

----------------------------------------------------------------------------
\* res.status(s).send(x): a string is sent as plain text, anything else as JSON.
Text(status, s) == [status |-> status, kind |-> "text", text |-> s, json |-> <<>>]
Json(status, v) == [status |-> status, kind |-> "json", text |-> "", json |-> v]

\* JSON form of new Product(id, name, price, retailer, amountInStock); an
\* argument is <<v>> for a value and <<>> for undefined (a field the document
\* lacks), and an undefined member is left out of the serialised object.
Product(id, name, price, retailer, amountInStock) ==
  LET args == [name |-> name, price |-> price, retailer |-> retailer,
               amountInStock |-> amountInStock]
      present == {f \in DOMAIN args : args[f] # <<>>}
  IN  [f \in {"id"} \cup present |-> IF f = "id" THEN id ELSE args[f][1]]

\* doc.data().f
Field(data, f) == IF f \in DOMAIN data THEN <<data[f]>> ELSE <<>>

----------------------------------------------------------------------------
\* Firestore

\* Path segments of an id string.
Segments(id) == IF id = "a/b" THEN <<"a", "b">> ELSE <<id>>

\* doc(db, "products", id) returns a reference (TRUE) or throws (FALSE).
DocRefOk(id) == Len(<<"products">> \o Segments(id)) % 2 = 0

DocExists(st, id) == id \in DOMAIN st

\* addDoc: the collection with data stored under the generated id.
AddDoc(st, newId, data) ==
  [i \in DOMAIN st \cup {newId} |-> IF i = newId THEN data ELSE st[i]]

\* getDocs: the documents of the collection, as <<[id, data], ...>>.
GetDocs(st) ==
  LET F[i \in 0..Len(DocIdOrder)] ==
        IF i = 0 THEN <<>>
        ELSE IF DocIdOrder[i] \in DOMAIN st
             THEN Append(F[i-1], [id |-> DocIdOrder[i], data |-> st[DocIdOrder[i]]])
             ELSE F[i-1]
  IN  F[Len(DocIdOrder)]

\* getDoc: the snapshot of one document.
GetDoc(st, id) ==
  [exists |-> DocExists(st, id),
   data |-> IF DocExists(st, id) THEN st[id] ELSE <<>>]

\* Mutant of MergeFields: the document is replaced by data (a set, not a merge).
MergeFieldsReplaces(old, data) == data

\* The fields of a document after updateDoc merged data into it.
MergeFields(old, data) ==
  [f \in DOMAIN old \cup DOMAIN data |-> IF f \in DOMAIN data THEN data[f] ELSE old[f]]

\* Mutant of UpdateDoc: an absent document is skipped in silence.
UpdateDocIgnoresAbsent(st, id, data) ==
  [ok |-> TRUE, message |-> "",
   store |-> [i \in DOMAIN st |-> IF i = id THEN MergeFields(st[i], data) ELSE st[i]]]

\* Mutant of UpdateDoc: create-or-merge (setDoc with merge), under the path id.
UpdateDocUpserts(st, id, data) ==
  [ok |-> TRUE, message |-> "",
   store |-> [i \in DOMAIN st \cup {id} |->
                IF i # id THEN st[i]
                ELSE IF DocExists(st, id) THEN MergeFields(st[i], data) ELSE data]]

\* updateDoc: merges data into the document when it exists, and is rejected
\* with not-found, writing nothing, when it does not.
UpdateDoc(st, id, data) ==
  IF DocExists(st, id)
  THEN [ok |-> TRUE, message |-> "",
        store |-> [i \in DOMAIN st |-> IF i = id THEN MergeFields(st[i], data) ELSE st[i]]]
  ELSE [ok |-> FALSE, message |-> ErrNotFound, store |-> st]

\* Mutant of DeleteDoc: nothing is removed.
DeleteDocNoop(st, id) == st

\* Mutant of DeleteDoc: the whole collection is removed.
DeleteDocClears(st, id) == [i \in {} |-> st[i]]

\* deleteDoc.
DeleteDoc(st, id) == [i \in DOMAIN st \ {id} |-> st[i]]

----------------------------------------------------------------------------
\* Requests

NoResult == [ok |-> FALSE, message |-> "", ref |-> "", snap |-> <<>>]
Fulfilled(ref, snap) == [ok |-> TRUE, message |-> "", ref |-> ref, snap |-> snap]
Rejected(msg) == [ok |-> FALSE, message |-> msg, ref |-> "", snap |-> <<>>]

\* A handler suspended at its await, its one store call issued.
Awaiting(op, id, body) ==
  [op |-> op, id |-> id, body |-> body, pc |-> "awaiting", calls |-> 1,
   sent |-> <<>>, at |-> 0, pre |-> EmptyStore, post |-> EmptyStore,
   res |-> NoResult]

\* Mutant of Caught: a generic 500 instead of 400 with the message.
CaughtAs500(error) == <<Text(500, "Internal Server Error")>>

\* The catch block of every handler: what it sends for the error caught.
Caught(error) == <<Text(400, error.message)>>

\* A handler whose try block threw before the store call: the catch block
\* sent its response and the handler returned.
Thrown(op, id, body, msg) ==
  [op |-> op, id |-> id, body |-> body, pc |-> "done", calls |-> 0,
   sent |-> Caught(Rejected(msg)), at |-> 0, pre |-> EmptyStore, post |-> EmptyStore,
   res |-> NoResult]

\* Handlers that build a document reference before the store call.
WithRef(op, id, body) ==
  IF DocRefOk(id) THEN Awaiting(op, id, body) ELSE Thrown(op, id, body, ErrInvalidRef)

Reqs == 1..Len(reqs)
CanReceive == Len(reqs) < MaxReqs
Creates == {r \in Reqs : reqs[r].op = "create"}

Receive(q) ==
  /\ reqs' = Append(reqs, q)
  /\ UNCHANGED <<store, assigned, clock>>

\* The store settles request r's call: result res, store becomes st.
Settle(r, res, st) ==
  /\ reqs' = [reqs EXCEPT ![r].pc = "settled", ![r].res = res,
                          ![r].at = clock + 1, ![r].pre = store, ![r].post = st]
  /\ store' = st
  /\ clock' = clock + 1

\* The handler of request r resumes after its await, runs to its end having
\* sent the responses out, and returns.
Finish(r, out) ==
  /\ reqs' = [reqs EXCEPT ![r].pc = "done", ![r].sent = reqs[r].sent \o out]
  /\ UNCHANGED <<store, assigned, clock>>

Resumable(r, op) == reqs[r].op = op /\ reqs[r].pc = "settled"

----------------------------------------------------------------------------
\* Handlers: up to the await

createProductCall ==
  /\ CanReceive
  /\ Cardinality(Creates) < MaxIds
  /\ \E body \in Bodies : Receive(Awaiting("create", "", body))

getProductsCall ==
  /\ CanReceive
  /\ Receive(Awaiting("list", "", NoBody))

getProductCall ==
  /\ CanReceive
  /\ \E id \in PathIds : Receive(WithRef("get", id, NoBody))

updateProductCall ==
  /\ CanReceive
  /\ \E id \in PathIds, body \in Bodies : Receive(WithRef("update", id, body))

deleteProductCall ==
  /\ CanReceive
  /\ \E id \in PathIds : Receive(WithRef("delete", id, NoBody))

----------------------------------------------------------------------------
\* The store settling an awaited call

Pending(r, op) == reqs[r].op = op /\ reqs[r].pc = "awaiting"

addDocStep ==
  \E r \in Reqs, newId \in AutoIds \ assigned :
    /\ Pending(r, "create")
    /\ Settle(r, Fulfilled(newId, <<>>), AddDoc(store, newId, reqs[r].body))
    /\ assigned' = assigned \cup {newId}

getDocsStep ==
  \E r \in Reqs :
    /\ Pending(r, "list")
    /\ Settle(r, Fulfilled("", GetDocs(store)), store)
    /\ UNCHANGED assigned

getDocStep ==
  \E r \in Reqs :
    /\ Pending(r, "get")
    /\ Settle(r, Fulfilled("", GetDoc(store, reqs[r].id)), store)
    /\ UNCHANGED assigned

updateDocStep ==
  \E r \in Reqs :
    /\ Pending(r, "update")
    /\ LET w == UpdateDoc(store, reqs[r].id, reqs[r].body)
       IN  Settle(r, IF w.ok THEN Fulfilled("", <<>>) ELSE Rejected(w.message), w.store)
    /\ UNCHANGED assigned

deleteDocStep ==
  \E r \in Reqs :
    /\ Pending(r, "delete")
    /\ Settle(r, Fulfilled("", <<>>), DeleteDoc(store, reqs[r].id))
    /\ UNCHANGED assigned

\* Any call can be rejected by the store for reasons of its own.
storeRejects ==
  \E r \in Reqs :
    /\ reqs[r].pc = "awaiting"
    /\ Settle(r, Rejected(ErrUnavailable), store)
    /\ UNCHANGED assigned

----------------------------------------------------------------------------
\* Handlers: from the await to the return

createProductSends(res) ==
  IF res.ok THEN <<Text(200, "product created successfully")>> ELSE Caught(res)

\* Mutant of ProductArray: name and retailer passed in each other's place.
ProductArraySwapped(snap) ==
  [i \in 1..Len(snap) |->
     Product(snap[i].id, Field(snap[i].data, "retailer"), Field(snap[i].data, "price"),
             Field(snap[i].data, "name"), Field(snap[i].data, "amountInStock"))]

\* productArray: one Product per document of the snapshot, in its order.
ProductArray(snap) ==
  [i \in 1..Len(snap) |->
     Product(snap[i].id, Field(snap[i].data, "name"), Field(snap[i].data, "price"),
             Field(snap[i].data, "retailer"), Field(snap[i].data, "amountInStock"))]

\* Mutant of getProductsSends: no check of products.empty.
getProductsSendsEmptyArray(res) ==
  IF res.ok THEN <<Json(200, ProductArray(res.snap))>> ELSE Caught(res)

getProductsSends(res) ==
  IF res.ok
  THEN IF res.snap = <<>>
       THEN <<Text(400, "No Products found")>>
       ELSE <<Json(200, ProductArray(res.snap))>>
  ELSE Caught(res)

\* Mutant of getProductSends: no check of data.exists().
getProductSendsUnchecked(res) ==
  IF res.ok THEN <<Json(200, res.snap.data)>> ELSE Caught(res)

\* Mutant of getProductSends: the 404 is sent without its else.
getProductSendsTwice(res) ==
  IF res.ok
  THEN IF res.snap.exists
       THEN <<Json(200, res.snap.data), Text(404, "product not found")>>
       ELSE <<Text(404, "product not found")>>
  ELSE Caught(res)

getProductSends(res) ==
  IF res.ok
  THEN IF res.snap.exists
       THEN <<Json(200, res.snap.data)>>
       ELSE <<Text(404, "product not found")>>
  ELSE Caught(res)

updateProductSends(res) ==
  IF res.ok THEN <<Text(200, "product updated successfully")>> ELSE Caught(res)

deleteProductSends(res) ==
  IF res.ok THEN <<Text(200, "product deleted successfully")>> ELSE Caught(res)

createProductResume ==
  \E r \in Reqs : Resumable(r, "create") /\ Finish(r, createProductSends(reqs[r].res))

getProductsResume ==
  \E r \in Reqs : Resumable(r, "list") /\ Finish(r, getProductsSends(reqs[r].res))

getProductResume ==
  \E r \in Reqs : Resumable(r, "get") /\ Finish(r, getProductSends(reqs[r].res))

updateProductResume ==
  \E r \in Reqs : Resumable(r, "update") /\ Finish(r, updateProductSends(reqs[r].res))

deleteProductResume ==
  \E r \in Reqs : Resumable(r, "delete") /\ Finish(r, deleteProductSends(reqs[r].res))

----------------------------------------------------------------------------
\* The process starts with no request in flight; the collection is empty or
\* holds a product created by an earlier run.
Init ==
  /\ reqs = <<>>
  /\ clock = 0
  /\ \/ store = EmptyStore /\ assigned = {}
     \/ store = AddDoc(EmptyStore, AutoIdSeq[1], Widget) /\ assigned = {AutoIdSeq[1]}

Next ==
  \/ createProductCall
  \/ getProductsCall
  \/ getProductCall
  \/ updateProductCall
  \/ deleteProductCall
  \/ addDocStep
  \/ getDocsStep
  \/ getDocStep
  \/ updateDocStep
  \/ deleteDocStep
  \/ storeRejects
  \/ createProductResume
  \/ getProductsResume
  \/ getProductResume
  \/ updateProductResume
  \/ deleteProductResume

Spec == Init /\ [][Next]_vars

----------------------------------------------------------------------------
\* Properties

\* Request r's store call was fulfilled and its handler has returned.
Served(r, op) == reqs[r].op = op /\ reqs[r].pc = "done" /\ reqs[r].res.ok

\* Request w's store call was fulfilled and wrote the document id.
WritesTo(w, id) ==
  /\ reqs[w].at > 0
  /\ reqs[w].res.ok
  /\ \/ reqs[w].op \in {"update", "delete"} /\ reqs[w].id = id
     \/ reqs[w].op = "create" /\ reqs[w].res.ref = id

\* The store settled a's call before b's, and no fulfilled write to id between.
FollowedBy(a, b, id) ==
  /\ 0 < reqs[a].at
  /\ reqs[a].at < reqs[b].at
  /\ \A w \in Reqs : ~(WritesTo(w, id) /\ reqs[a].at < reqs[w].at /\ reqs[w].at < reqs[b].at)

\* A list whose store call found the collection with zero documents.
ListOfEmpty(r) == Served(r, "list") /\ DOMAIN reqs[r].pre = {}

\* C1 as stated: a list that finds the "products" collection empty responds
\* 400 with the plain-text body "no products found", in lower case.
C1_LowerCaseBody ==
  \A r \in Reqs : ListOfEmpty(r) => reqs[r].sent = <<Text(400, "no products found")>>

\* C1 amended: a list that finds the "products" collection empty responds
\* 400 with the plain-text body "No Products found" (capital N and P), one
\* response, and never 200 with an empty array.
C1_EmptyListIs400 ==
  \A r \in Reqs : ListOfEmpty(r) => reqs[r].sent = <<Text(400, "No Products found")>>

C1_Witness == \E r \in Reqs : ListOfEmpty(r)

\* An update of an existing document that responded 200, then a get-one of
\* the same id that the store served next among the writes to that id.
UpdateThenGet(u, g) ==
  /\ Served(u, "update")
  /\ reqs[u].sent[1].status = 200
  /\ Served(g, "get")
  /\ reqs[g].id = reqs[u].id
  /\ FollowedBy(u, g, reqs[u].id)

\* C2: after update(id, partial) responded 200, get-one(id) with no write to
\* id in between returns a document whose fields are those of the prior
\* document and of partial together: each field of partial has partial's
\* value, each other prior field keeps its value, none is removed.
C2_UpdateMerges ==
  \A u, g \in Reqs :
    UpdateThenGet(u, g) =>
      LET old == reqs[u].pre[reqs[u].id]
          partial == reqs[u].body
          got == reqs[g].sent[1]
      IN  /\ Len(reqs[g].sent) = 1
          /\ got.status = 200
          /\ got.kind = "json"
          /\ DOMAIN got.json = DOMAIN old \cup DOMAIN partial
          /\ \A f \in DOMAIN partial : got.json[f] = partial[f]
          /\ \A f \in DOMAIN old \ DOMAIN partial : got.json[f] = old[f]

\* An update that changed one field, left another alone and was read back.
C2_Witness ==
  \E u, g \in Reqs :
    /\ UpdateThenGet(u, g)
    /\ reqs[u].body = PriceOnly
    /\ reqs[u].pre[reqs[u].id].price # PriceOnly.price
    /\ "name" \in DOMAIN reqs[u].pre[reqs[u].id]

\* An update whose store call the store itself decided, for an id that had
\* no document then.
UpdateOfAbsent(r) ==
  /\ reqs[r].op = "update"
  /\ reqs[r].pc = "done"
  /\ reqs[r].at > 0
  /\ reqs[r].res.message # ErrUnavailable
  /\ reqs[r].id \notin DOMAIN reqs[r].pre

\* C3 as stated: update(id, body) for an id with no document responds 200
\* "product updated successfully" and the store then holds body at id.
C3_UpdateCreates ==
  \A r \in Reqs :
    UpdateOfAbsent(r) =>
      /\ reqs[r].sent = <<Text(200, "product updated successfully")>>
      /\ reqs[r].id \in DOMAIN reqs[r].post
      /\ reqs[r].post[reqs[r].id] = reqs[r].body

\* C3 amended: update(id, body) for an id with no document makes no check of
\* its own; the store rejects the update, the handler responds 400 with the
\* store's message, and the store is left as it was, with no document at id.
C3_UpdateOfAbsentFails ==
  \A r \in Reqs :
    UpdateOfAbsent(r) =>
      /\ reqs[r].calls = 1
      /\ reqs[r].sent = <<Text(400, ErrNotFound)>>
      /\ reqs[r].post = reqs[r].pre
      /\ reqs[r].id \notin DOMAIN reqs[r].post

C3_Witness == \E r \in Reqs : UpdateOfAbsent(r) /\ reqs[r].id = "doesnotexist"

\* The four product fields.
ProductFields == {"name", "price", "retailer", "amountInStock"}

\* A create of a full product payload that responded 200, then a list the
\* store served with no delete or update in between.
CreateThenList(c, l) ==
  /\ Served(c, "create")
  /\ reqs[c].sent[1].status = 200
  /\ ProductFields \subseteq DOMAIN reqs[c].body
  /\ Served(l, "list")
  /\ reqs[c].at < reqs[l].at
  /\ \A w \in Reqs :
       ~(/\ reqs[w].op \in {"update", "delete"}
         /\ reqs[w].res.ok
         /\ reqs[c].at < reqs[w].at
         /\ reqs[w].at < reqs[l].at)

\* C4: create(P) that responded 200 followed by list() responds 200 with an
\* array holding an entry whose name, price, retailer and amountInStock are
\* those of P and whose id the store assigned at that create: an id the
\* generator produced, held by no document before the create, and not part
\* of the request.
C4_CreatedIsListed ==
  \A c, l \in Reqs :
    CreateThenList(c, l) =>
      LET id == reqs[c].res.ref
          got == reqs[l].sent[1]
      IN  /\ Len(reqs[l].sent) = 1
          /\ got.status = 200
          /\ got.kind = "json"
          /\ \E i \in 1..Len(got.json) :
               /\ got.json[i].id = id
               /\ \A f \in ProductFields : got.json[i][f] = reqs[c].body[f]
          /\ id \in AutoIds
          /\ id \notin DOMAIN reqs[c].pre
          /\ reqs[c].id = ""
          /\ "id" \notin DOMAIN reqs[c].body

\* A created product listed beside a product that was there before.
C4_Witness ==
  \E c, l \in Reqs :
    /\ CreateThenList(c, l)
    /\ reqs[c].body = Gadget
    /\ DOMAIN reqs[c].pre # {}

\* C5: get-one(id) responds 200 with exactly the stored fields of the
\* document (no id added, no wrapping) when the document exists at the store
\* call, and 404 "product not found" when it does not: absence is 404, not
\* 400 and not 200.
C5_GetOne ==
  \A r \in Reqs :
    Served(r, "get") =>
      IF reqs[r].id \in DOMAIN reqs[r].pre
      THEN reqs[r].sent = <<Json(200, reqs[r].pre[reqs[r].id])>>
      ELSE reqs[r].sent = <<Text(404, "product not found")>>

\* Both cases happened: a get of a created product and a get of an unknown id.
C5_Witness ==
  \E r, q \in Reqs :
    /\ Served(r, "get") /\ reqs[r].id \in DOMAIN reqs[r].pre
    /\ Served(q, "get") /\ reqs[q].id = "doesnotexist"

\* C6: delete(id) whose store call the store fulfilled responds 200 "product
\* deleted successfully" whether or not the document existed; the document is
\* gone afterwards, a delete of an absent id leaves the store as it was, and
\* a get-one(id) served after it with no write to id in between responds 404.
C6_Delete ==
  /\ \A d \in Reqs :
       Served(d, "delete") =>
         /\ reqs[d].sent = <<Text(200, "product deleted successfully")>>
         /\ reqs[d].id \notin DOMAIN reqs[d].post
         /\ reqs[d].id \notin DOMAIN reqs[d].pre => reqs[d].post = reqs[d].pre
  /\ \A d, g \in Reqs :
       /\ Served(d, "delete")
       /\ Served(g, "get")
       /\ reqs[g].id = reqs[d].id
       /\ FollowedBy(d, g, reqs[d].id)
       => reqs[g].sent = <<Text(404, "product not found")>>

\* A delete of an existing product read back, and a delete of an unknown id.
C6_Witness ==
  \E d, g, a \in Reqs :
    /\ Served(d, "delete") /\ reqs[d].id \in DOMAIN reqs[d].pre
    /\ Served(g, "get") /\ reqs[g].id = reqs[d].id /\ FollowedBy(d, g, reqs[d].id)
    /\ Served(a, "delete") /\ reqs[a].id = "doesnotexist"

\* C7 as stated: every request whose handler has returned issued exactly one
\* store call and wrote exactly one response.
C7_ExactlyOneCall ==
  \A r \in Reqs :
    reqs[r].pc = "done" => reqs[r].calls = 1 /\ Len(reqs[r].sent) = 1

\* C7 amended: a request issues at most one store call: exactly one, except
\* that get-one, update and delete issue none when building the document
\* reference throws for the path id (an id holding a "/"), which the catch
\* block answers with 400.  It writes no response before the call is settled
\* and exactly one once its handler has returned.
C7_AtMostOneCall ==
  \A r \in Reqs :
    /\ reqs[r].calls \in {0, 1}
    /\ reqs[r].calls = 0 <=>
         reqs[r].op \in {"get", "update", "delete"} /\ reqs[r].id = "a/b"
    /\ reqs[r].calls = 0 =>
         /\ reqs[r].at = 0
         /\ reqs[r].pc = "done"
         /\ reqs[r].sent = <<Text(400, ErrInvalidRef)>>
    /\ reqs[r].at > 0 => reqs[r].calls = 1
    /\ reqs[r].pc # "done" => reqs[r].sent = <<>>
    /\ reqs[r].pc = "done" => Len(reqs[r].sent) = 1

\* A get-one answered 200, an explicit 404, and a request that made no call.
C7_Witness ==
  \E r, q, t \in Reqs :
    /\ Served(r, "get") /\ reqs[r].sent[1].status = 200
    /\ Served(q, "get") /\ reqs[q].sent[1].status = 404
    /\ reqs[t].pc = "done" /\ reqs[t].calls = 0

\* Request r's store call was rejected.
StoreFailed(r) == reqs[r].at > 0 /\ ~reqs[r].res.ok

\* C8: when the store call of any of the five operations fails, the handler
\* catches the failure and responds 400 with the failure's message as the
\* plain-text body: one call (no retry), one response, no other status.
C8_FailureIs400 ==
  \A r \in Reqs :
    StoreFailed(r) =>
      /\ reqs[r].calls = 1
      /\ reqs[r].pc \in {"settled", "done"}
      /\ reqs[r].post = reqs[r].pre
      /\ reqs[r].pc = "done" => reqs[r].sent = <<Text(400, reqs[r].res.message)>>

\* A failed create and a failed update, both answered.
C8_Witness ==
  \E c, u \in Reqs :
    /\ reqs[c].op = "create" /\ StoreFailed(c) /\ reqs[c].pc = "done"
    /\ reqs[u].op = "update" /\ StoreFailed(u) /\ reqs[u].pc = "done"
    /\ reqs[u].res.message # reqs[c].res.message

\* C9: every document of the collection has an id the store's generator
\* assigned at a create; a store call adds a document only when it is a
\* create, and then exactly one, under an id no document and no earlier
\* create had; update never adds a document, whatever the path id.
C9_IdsAreStoreAssigned ==
  /\ DOMAIN store \subseteq assigned
  /\ assigned \subseteq AutoIds
  /\ \A r \in Reqs :
       reqs[r].at > 0 =>
         /\ DOMAIN reqs[r].post \ DOMAIN reqs[r].pre =
              IF reqs[r].op = "create" /\ reqs[r].res.ok THEN {reqs[r].res.ref} ELSE {}
         /\ reqs[r].op = "update" => DOMAIN reqs[r].post = DOMAIN reqs[r].pre
  /\ \A c, d \in Reqs :
       /\ c # d
       /\ reqs[c].op = "create" /\ reqs[c].res.ok
       /\ reqs[d].op = "create" /\ reqs[d].res.ok
       => reqs[c].res.ref # reqs[d].res.ref

\* Two creates and an update with an id of the client's making, all settled.
C9_Witness ==
  \E c, d, u \in Reqs :
    /\ c # d
    /\ reqs[c].op = "create" /\ reqs[c].res.ok
    /\ reqs[d].op = "create" /\ reqs[d].res.ok
    /\ reqs[u].op = "update" /\ reqs[u].at > 0 /\ reqs[u].id = "doesnotexist"

\* C10: list and get-one leave the store as it was; create adds one document
\* and leaves every existing one as it was; update(id, ..) and delete(id)
\* leave every document with another id as it was; a request answered with
\* an error status left the store as it was.
C10_Frame ==
  \A r \in Reqs :
    reqs[r].at > 0 =>
      LET pre == reqs[r].pre
          post == reqs[r].post
      IN  /\ reqs[r].op \in {"list", "get"} => post = pre
          /\ reqs[r].op = "create" /\ reqs[r].res.ok =>
               /\ Cardinality(DOMAIN post) = Cardinality(DOMAIN pre) + 1
               /\ \A i \in DOMAIN pre : i \in DOMAIN post /\ post[i] = pre[i]
          /\ reqs[r].op \in {"update", "delete"} =>
               \A i \in (DOMAIN pre \cup DOMAIN post) \ {reqs[r].id} :
                 i \in DOMAIN pre /\ i \in DOMAIN post /\ post[i] = pre[i]
          /\ reqs[r].pc = "done" /\ reqs[r].sent[1].status >= 400 => post = pre

\* A delete and an update that each left another product in place.
C10_Witness ==
  \E d, u \in Reqs :
    /\ Served(d, "delete") /\ reqs[d].id \in DOMAIN reqs[d].pre
    /\ DOMAIN reqs[d].post # {}
    /\ Served(u, "update") /\ Cardinality(DOMAIN reqs[u].pre) = 2

====
